---------------------------- MODULE Spec2Model ----------------------------
(***************************************************************************)
(* deepstream.io-storage-arangodb: the storage connector (src/connector.js) *)
(* and its envelope transformer (src/transform-data.js).                   *)
(*                                                                         *)
(* Strings are sequences of one-character strings, so that indexOf and     *)
(* substring are computed as JavaScript computes them.  JSON values are    *)
(* tagged records: an object and an array never compare equal, not even    *)
(* when both are empty.                                                    *)
(***************************************************************************)
EXTENDS Integers, Sequences, FiniteSets, Bags, TLC

(***************************************************************************)
(* JSON values                                                             *)
(***************************************************************************)
Null == [t |-> "null"]
Undefined == [t |-> "undefined"]
True == [t |-> "true"]
TypeError == [t |-> "TypeError"]
Str(s) == [t |-> "str", p |-> s]
Num(n) == [t |-> "num", n |-> n]
Obj(f) == [t |-> "obj", f |-> f]
Arr(e) == [t |-> "arr", e |-> e]
EmptyFields == [n \in {} |-> Null]

IsArray(v) == v.t = "arr"
IsObject(v) == v.t = "obj"

\* o[name]: undefined when o has no such property
GetField(o, name) == IF IsObject(o) /\ name \in DOMAIN o.f THEN o.f[name] ELSE Undefined
\* delete o[name]
DeleteField(o, name) == Obj([n \in DOMAIN o.f \ {name} |-> o.f[n]])
\* o[name] = v
PutField(o, name, v) == Obj([n \in DOMAIN o.f \cup {name} |-> IF n = name THEN v ELSE o.f[n]])

\* JSON.parse(JSON.stringify(v)): a deep copy in which a property whose value
\* is undefined is dropped and an undefined array element becomes null
RECURSIVE JsonClone(_)
JsonClone(v) ==
    CASE v.t = "obj" ->
           Obj([n \in {m \in DOMAIN v.f : v.f[m].t # "undefined"} |-> JsonClone(v.f[n])])
      [] v.t = "arr" ->
           Arr([i \in 1..Len(v.e) |->
                   IF v.e[i].t = "undefined" THEN Null ELSE JsonClone(v.e[i])])
      [] OTHER -> v

\* a value JSON can carry: no undefined anywhere in it
RECURSIVE IsJson(_)
IsJson(v) ==
    CASE v.t = "obj" -> \A n \in DOMAIN v.f : IsJson(v.f[n])
      [] v.t = "arr" -> \A i \in 1..Len(v.e) : IsJson(v.e[i])
      [] OTHER -> v.t \in {"null", "true", "str", "num"}

(***************************************************************************)
(* transform-data.js                                                       *)
(***************************************************************************)
\* the array branch of transformValueForStorage, with the list stored reversed
transformValueForStorage_reversed(value) ==
    LET v == JsonClone(value)
        data == GetField(v, "_d")
        rest == DeleteField(v, "_d")
    IN  IF IsArray(data)
        THEN Obj([n \in {"__dsList", "__ds"} |->
                    IF n = "__dsList"
                    THEN Arr([i \in 1..Len(data.e) |-> data.e[Len(data.e) + 1 - i]])
                    ELSE rest])
        ELSE IF IsObject(data) THEN PutField(data, "__ds", rest)
        ELSE TypeError

\* transformValueForStorage with the metadata of an object payload left out
transformValueForStorage_nometa(value) ==
    LET v == JsonClone(value)
        data == GetField(v, "_d")
        rest == DeleteField(v, "_d")
    IN  IF IsArray(data)
        THEN Obj([n \in {"__dsList", "__ds"} |-> IF n = "__dsList" THEN data ELSE rest])
        ELSE IF IsObject(data) THEN PutField(data, "__ds", Obj(EmptyFields))
        ELSE TypeError

transformValueForStorage(value) ==
    LET v == JsonClone(value)
        data == GetField(v, "_d")
        rest == DeleteField(v, "_d")
    IN  IF IsArray(data)
        THEN Obj([n \in {"__dsList", "__ds"} |-> IF n = "__dsList" THEN data ELSE rest])
        ELSE IF IsObject(data) THEN PutField(data, "__ds", rest)
        ELSE TypeError   \* "use strict": a property of a primitive cannot be set

transformValueFromStorage(value) ==
    LET v == JsonClone(value)
        data == GetField(v, "__ds")
        rest == DeleteField(DeleteField(DeleteField(DeleteField(v, "__ds"), "_key"), "_rev"), "_id")
    IN  IF ~IsObject(data) THEN TypeError   \* data is undefined or a primitive
        ELSE IF IsArray(GetField(rest, "__dsList"))
        THEN PutField(data, "_d", GetField(rest, "__dsList"))
        ELSE PutField(data, "_d", rest)

(***************************************************************************)
(* JavaScript strings                                                      *)
(***************************************************************************)
\* s.substring(from, to), 0-based, to exclusive
Substring(s, from, to) == SubSeq(s, from + 1, to)

\* s.indexOf(search): the 0-based index of the first occurrence, or -1
IndexOf(s, search) ==
    LET hits == {i \in 0..(Len(s) - Len(search)) : Substring(s, i, i + Len(search)) = search}
    IN  IF hits = {} THEN -1 ELSE CHOOSE i \in hits : \A j \in hits : i <= j

\* _splitChar null is the empty sequence here: options.splitChar || null stores
\* null for an absent and for an empty splitChar, so no stored delimiter is empty
NullSplitChar == <<>>

\* String(x) as indexOf applies it to its argument: null becomes "null"
ToSearchString(sc) == IF sc = NullSplitChar THEN <<"n", "u", "l", "l">> ELSE sc


(***************************************************************************)
(* State                                                                   *)
(***************************************************************************)
VARIABLES
    splitChar,          \* this._splitChar (NullSplitChar for null)
    defaultCollection,  \* this._defaultCollection
    collections,        \* the names this._collections holds as own properties
    prov,               \* per name: existence checks and creates, sent and in flight
    storeColls,         \* the store: names of the collections that exist
    storeDocs,          \* the store: the documents, [coll, key, doc]
    pending,            \* the set/get/delete calls whose query is in flight (a bag)
    lastCb,             \* the callback the last step invoked, None if it invoked none
    quiet,              \* the last set that ran alone and succeeded, or the last delete
                        \* that ran alone, with its outcome, if no
                        \* set or delete has been called since
    clash,              \* two sets or deletes have been in flight together
    consoleErrors,      \* the errors written with console.error
    emitted,            \* the signals emitted to the host
    hostKeys,           \* the keys the host passes to set, get and delete
    hostValues,         \* the values the host passes to set
    storeFaults,        \* whether the store may fail a request it could execute
    input,              \* the argument of a function applied on its own
    output,             \* and its result
    isReady,            \* this.isReady
    boot,               \* where the constructor's promise chain stands
    databases,          \* the store: the names listUserDatabases answers with
    usedDatabase,       \* the database this._db has selected
    bootFaults          \* the steps of the bootstrap that fail

vars == <<splitChar, defaultCollection, collections, prov, storeColls, storeDocs,
          pending, lastCb, quiet, clash, consoleErrors, emitted,
          hostKeys, hostValues, storeFaults, input, output,
          isReady, boot, databases, usedDatabase, bootFaults>>

config == <<splitChar, defaultCollection, hostKeys, hostValues, storeFaults>>
io == <<input, output>>
bootstrap == <<isReady, boot, databases, usedDatabase, bootFaults>>

(***************************************************************************)
(* Bounds and the values the host uses                                     *)
(***************************************************************************)
\* the calls that may be in flight at once
MaxPending == 2

DefaultCollectionName == <<"d">>
Colon == <<":">>
KeyA == <<"a">>
KeyUA == <<"u", ":", "a">>
KeyUUA == <<"u", ":", "u", ":", "a">>
KeyColonA == <<":", "a">>
KeyDA == <<"d", ":", "a">>
KeyCtor == <<"c", "o", "n", "s", "t", "r", "u", "c", "t", "o", "r", ":", "a">>

\* { _d: { v: 10 }, firstname: 'Wolfram' }, the record of the repository's test
ValueObject == Obj([n \in {"_d", "firstname"} |->
                     IF n = "_d" THEN Obj([m \in {"v"} |-> Num(10)]) ELSE Str("Wolfram")])
\* { _d: [ 'x', 'y' ], _v: 1 }
ValueList == Obj([n \in {"_d", "_v"} |->
                     IF n = "_d" THEN Arr(<<Str("x"), Str("y")>>) ELSE Num(1)])

(***************************************************************************)
(* connector.js: routing and the collection cache                          *)
(***************************************************************************)
\* the property names every object inherits from Object.prototype (two of them)
ObjectPrototypeNames ==
    { <<"c", "o", "n", "s", "t", "r", "u", "c", "t", "o", "r">>,
      <<"t", "o", "S", "t", "r", "i", "n", "g">> }

NoParams == [null |-> TRUE]

\* _getParams splitting at the last occurrence of the delimiter
getParamsOf_lastIndex(key, sc, dflt) ==
    LET search == ToSearchString(sc)
        hits == {i \in 0..(Len(key) - Len(search)) : Substring(key, i, i + Len(search)) = search}
        first == IF hits = {} THEN -1 ELSE CHOOSE i \in hits : \A j \in hits : i <= j
        last == IF hits = {} THEN -1 ELSE CHOOSE i \in hits : \A j \in hits : i >= j
    IN  IF first = 0 THEN NoParams
        ELSE IF first = -1 THEN [null |-> FALSE, collectionName |-> dflt, id |-> key]
        ELSE [null |-> FALSE,
              collectionName |-> Substring(key, 0, last),
              id |-> Substring(key, last + 1, Len(key))]

\* _getParams rejecting with index <= 0 instead of index === 0
getParamsOf_missingInvalid(key, sc, dflt) ==
    LET index == IndexOf(key, ToSearchString(sc))
    IN  IF index <= 0 THEN NoParams
        ELSE [null |-> FALSE,
              collectionName |-> Substring(key, 0, index),
              id |-> Substring(key, index + 1, Len(key))]

\* _getParams, the routing it computes: null, or the collection name and the id
getParamsOf(key, sc, dflt) ==
    LET index == IndexOf(key, ToSearchString(sc))
    IN  IF index = 0 THEN NoParams
        ELSE IF index = -1 THEN [null |-> FALSE, collectionName |-> dflt, id |-> key]
        ELSE [null |-> FALSE,
              collectionName |-> Substring(key, 0, index),
              id |-> Substring(key, index + 1, Len(key))]

_getParams(key) == getParamsOf(key, splitChar, defaultCollection)

\* !this._collections[ collectionName ]: an inherited property is truthy too
NotCached(name) == name \notin collections /\ name \notin ObjectPrototypeNames

NoProv == [checksIssued |-> 0, checksPending |-> 0, createsIssued |-> 0, createsPending |-> 0]
ProvOf(name) == IF name \in DOMAIN prov THEN prov[name] ELSE NoProv
SetProv(name, p) == [n \in DOMAIN prov \cup {name} |-> IF n = name THEN p ELSE prov[n]]

\* _getCollection caching the handle without asking whether the collection
\* exists
_getCollection_noCheck(name) ==
    IF NotCached(name)
    THEN collections' = collections \cup {name} /\ UNCHANGED prov
    ELSE UNCHANGED <<collections, prov>>

\* _getCollection: on the first reference the handle is cached and the
\* existence check is sent
_getCollection(name) ==
    IF NotCached(name)
    THEN /\ collections' = collections \cup {name}
         /\ prov' = SetProv(name, [ProvOf(name) EXCEPT !.checksIssued = @ + 1,
                                                        !.checksPending = @ + 1])
    ELSE UNCHANGED <<collections, prov>>

\* the handle _getCollection returns: the cached collection, or what
\* Object.prototype holds under that name
HandleOf(name) ==
    IF name \in ObjectPrototypeNames /\ name \notin collections
    THEN [kind |-> "inherited", name |-> name]
    ELSE [kind |-> "collection", name |-> name]

(***************************************************************************)
(* connector.js: set, get, delete                                          *)
(***************************************************************************)
\* a string of characters as a JSON value
Chars(k) == [t |-> "str", c |-> k]
\* `Invalid key ${key}`
InvalidKey(key) == [t |-> "invalidKey", key |-> key]
StoreError(code) == [t |-> "storeError", code |-> code]
NoHandle == [kind |-> "none"]
None == [op |-> "none"]

Mutations == {r \in BagToSet(pending) : r.op # "get"}

\* what set sends: the storage document with _key = params.id
SetDocument(value, params) == PutField(transformValueForStorage(value), "_key", Chars(params.id))

\* delete removing params.id while get still filters on the key
QueryKey_deleteById(op, key, params) == IF op = "get" THEN key ELSE params.id

\* the _key each query names: set upserts params.id, get filters on the key
\* and delete removes the key
QueryKey(op, key, params) == IF op = "set" THEN params.id ELSE key

\* the call as it is in flight once its query is sent
Request(op, key, value, params) ==
    [op |-> op, key |-> key, value |-> value, params |-> params,
     handle |-> HandleOf(params.collectionName),
     qkey |-> QueryKey(op, key, params),
     doc |-> IF op = "set" THEN SetDocument(value, params) ELSE Null,
     sees |-> IF op = "get" /\ Mutations = {} THEN quiet ELSE None]

\* set, get and delete asking for the collection before they look at the key
Call_collectionFirst(op, key, value) ==
    LET params == _getParams(key)
        name == IF params.null THEN Substring(key, 0, 0) ELSE params.collectionName
    IN  /\ BagCardinality(pending) < MaxPending
        /\ _getCollection(name)
        /\ IF params.null
           THEN /\ lastCb' = [op |-> op, key |-> key, err |-> InvalidKey(key),
                              res |-> Undefined, sees |-> None]
                /\ UNCHANGED <<pending, quiet, clash>>
           ELSE /\ pending' = pending (+) SetToBag({Request(op, key, value, params)})
                /\ quiet' = IF op = "get" THEN quiet ELSE None
                /\ clash' = IF op = "get" THEN clash ELSE (clash \/ Mutations # {})
                /\ lastCb' = None
        /\ UNCHANGED <<storeColls, storeDocs, consoleErrors, emitted>>
        /\ UNCHANGED <<config, io, bootstrap>>

\* the body of set, get and delete up to the query being sent
Call(op, key, value) ==
    LET params == _getParams(key)
    IN  /\ BagCardinality(pending) < MaxPending
        /\ IF params.null
           THEN /\ lastCb' = [op |-> op, key |-> key, err |-> InvalidKey(key),
                              res |-> Undefined, sees |-> None]
                /\ UNCHANGED <<collections, prov, pending, quiet, clash>>
           ELSE /\ _getCollection(params.collectionName)
                /\ pending' = pending (+) SetToBag({Request(op, key, value, params)})
                /\ quiet' = IF op = "get" THEN quiet ELSE None
                /\ clash' = IF op = "get" THEN clash ELSE (clash \/ Mutations # {})
                /\ lastCb' = None
        /\ UNCHANGED <<storeColls, storeDocs, consoleErrors, emitted>>
        /\ UNCHANGED <<config, io, bootstrap>>

Set == \E key \in hostKeys, value \in hostValues : Call("set", key, value)
Get == \E key \in hostKeys : Call("get", key, Null)
Delete == \E key \in hostKeys : Call("delete", key, Null)

(***************************************************************************)
(* The document store, as connector.js uses it.  The store's handling of a *)
(* request and the invocation of the request's callback are one step: the  *)
(* connector holds no state that changes in between.                       *)
(***************************************************************************)
Faults(kinds) == IF storeFaults THEN {"none"} \cup kinds ELSE {"none"}

\* a query addressing the documents with the _key in whatever collection
Matching_anyCollection(h, k) == {d \in storeDocs : h.kind = "collection" /\ d.key = k}

\* the documents a query on handle h and _key k addresses
Matching(h, k) == {d \in storeDocs : h.kind = "collection" /\ d.coll = h.name /\ d.key = k}

\* a document as the store returns it, with its bookkeeping fields
StoreRecord(d) ==
    PutField(PutField(d.doc, "_id", Chars(d.coll \o <<"/">> \o d.key)), "_rev", Str("rev"))

\* the error the store answers a query with, Null when it executes the query
QueryError(c, fault) ==
    IF fault = "query" THEN StoreError("fault")
    ELSE IF c.handle.kind # "collection" \/ c.handle.name \notin storeColls
    THEN StoreError("collection not found")
    ELSE Null

\* a failed request staying in flight, to be answered again
Callback_retried(c, err, res) ==
    LET rest == IF err # Null /\ c.op # "get" THEN pending ELSE pending (-) SetToBag({c})
        alone == ~clash /\ Mutations = {c} /\ CopiesIn(c, pending) = 1
    IN  /\ pending' = rest
        /\ lastCb' = [op |-> c.op, key |-> c.key, err |-> err, res |-> res,
                      sees |-> IF c.sees = quiet THEN c.sees ELSE None]
        /\ quiet' = IF c.op = "get" THEN quiet
                    ELSE IF alone /\ (err = Null \/ c.op = "delete")
                    THEN [op |-> c.op, key |-> c.key, value |-> c.value, ok |-> err = Null]
                    ELSE None
        /\ clash' = IF \E r \in BagToSet(rest) : r.op # "get" THEN clash ELSE FALSE

\* the callback of call c is invoked with (err, res)
Callback(c, err, res) ==
    LET rest == pending (-) SetToBag({c})
        alone == ~clash /\ Mutations = {c} /\ CopiesIn(c, pending) = 1
    IN  /\ pending' = rest
        /\ lastCb' = [op |-> c.op, key |-> c.key, err |-> err, res |-> res,
                      sees |-> IF c.sees = quiet THEN c.sees ELSE None]
        /\ quiet' = IF c.op = "get" THEN quiet
                    ELSE IF alone /\ (err = Null \/ c.op = "delete")
                    THEN [op |-> c.op, key |-> c.key, value |-> c.value, ok |-> err = Null]
                    ELSE None
        /\ clash' = IF \E r \in BagToSet(rest) : r.op # "get" THEN clash ELSE FALSE

\* set inserting a further document where one with the _key is stored
StoreUpsert_insertOnly(c, fault) ==
    LET qerr == QueryError(c, fault)
    IN  /\ c.op = "set"
        /\ IF qerr # Null
           THEN Callback(c, qerr, Undefined) /\ UNCHANGED storeDocs
           ELSE /\ storeDocs' = storeDocs
                                  \cup {[coll |-> c.handle.name, key |-> c.qkey, doc |-> c.doc]}
                /\ Callback(c, Null, True)

\* the UPSERT of set and its callback
StoreUpsert(c, fault) ==
    LET qerr == QueryError(c, fault)
    IN  /\ c.op = "set"
        /\ IF qerr # Null
           THEN Callback(c, qerr, Undefined) /\ UNCHANGED storeDocs
           ELSE /\ storeDocs' = (storeDocs \ Matching(c.handle, c.qkey))
                                  \cup {[coll |-> c.handle.name, key |-> c.qkey, doc |-> c.doc]}
                /\ Callback(c, Null, True)

\* get reporting a missing record as an error
StoreFind_notFoundIsError(c, fault) ==
    LET qerr == QueryError(c, fault)
        found == Matching(c.handle, c.qkey)
    IN  /\ c.op = "get"
        /\ UNCHANGED storeDocs
        /\ IF qerr # Null THEN Callback(c, qerr, Null)
           ELSE IF fault = "cursor" \/ found = {}
           THEN Callback(c, StoreError("document not found"), Null)
           ELSE \E d \in found : Callback(c, Null, transformValueFromStorage(StoreRecord(d)))

\* get passing on the error of cursor.next as it does the error of the query
StoreFind_cursorErrorPassed(c, fault) ==
    LET qerr == QueryError(c, fault)
        found == Matching(c.handle, c.qkey)
    IN  /\ c.op = "get"
        /\ UNCHANGED storeDocs
        /\ IF qerr # Null THEN Callback(c, qerr, Null)
           ELSE IF fault = "cursor" THEN Callback(c, StoreError("cursor"), Null)
           ELSE IF found = {} THEN Callback(c, Null, Null)
           ELSE \E d \in found : Callback(c, Null, transformValueFromStorage(StoreRecord(d)))

\* the FOR .. FILTER .. LIMIT 1 of get, cursor.next and get's callbacks
StoreFind(c, fault) ==
    LET qerr == QueryError(c, fault)
        found == Matching(c.handle, c.qkey)
    IN  /\ c.op = "get"
        /\ UNCHANGED storeDocs
        /\ IF qerr # Null THEN Callback(c, qerr, Null)
           ELSE IF fault = "cursor" \/ found = {} THEN Callback(c, Null, Null)
           ELSE \E d \in found : Callback(c, Null, transformValueFromStorage(StoreRecord(d)))

\* the REMOVE of delete and its callback
StoreRemove(c, fault) ==
    LET qerr == QueryError(c, fault)
        found == Matching(c.handle, c.qkey)
    IN  /\ c.op = "delete"
        /\ IF qerr # Null THEN Callback(c, qerr, Null) /\ UNCHANGED storeDocs
           ELSE IF found = {}
           THEN \* what removing an absent document answers is the store's choice
                /\ \/ Callback(c, StoreError("document not found"), Null)
                   \/ Callback(c, Null, True)
                /\ UNCHANGED storeDocs
           ELSE storeDocs' = storeDocs \ found /\ Callback(c, Null, True)

StoreQuery ==
    /\ \E c \in BagToSet(pending) :
          \/ \E fault \in Faults({"query"}) : StoreUpsert(c, fault)
          \/ \E fault \in Faults({"query", "cursor"}) : StoreFind(c, fault)
          \/ \E fault \in Faults({"query"}) : StoreRemove(c, fault)
    /\ UNCHANGED <<collections, prov, storeColls, consoleErrors, emitted>>
    /\ UNCHANGED <<config, io, bootstrap>>

\* collection.get: the existence check, and its callback, which sends the
\* create when the check reports an error
StoreCollectionGet ==
    \E name \in DOMAIN prov, fault \in Faults({"check"}) :
        /\ prov[name].checksPending > 0
        /\ prov' = [prov EXCEPT ![name] =
                      IF fault = "check" \/ name \notin storeColls
                      THEN [@ EXCEPT !.checksPending = @ - 1,
                                     !.createsIssued = @ + 1, !.createsPending = @ + 1]
                      ELSE [@ EXCEPT !.checksPending = @ - 1]]
        /\ lastCb' = None
        /\ UNCHANGED <<collections, storeColls, storeDocs, pending, quiet, clash,
                       consoleErrors, emitted>>
        /\ UNCHANGED <<config, io, bootstrap>>

\* the create callback emitting the error to the host instead of logging it
ReportCreateError_emit(name, err) ==
    /\ emitted' = Append(emitted, [signal |-> "error", err |-> err])
    /\ UNCHANGED consoleErrors

\* what the create callback does with an error: console.error(err)
ReportCreateError(name, err) ==
    /\ consoleErrors' = Append(consoleErrors, [name |-> name, err |-> err])
    /\ UNCHANGED emitted

\* collection.create and its callback
StoreCollectionCreate ==
    \E name \in DOMAIN prov, fault \in Faults({"create"}) :
        /\ prov[name].createsPending > 0
        /\ prov' = [prov EXCEPT ![name].createsPending = @ - 1]
        /\ IF fault = "create"
           THEN ReportCreateError(name, StoreError("create failed")) /\ UNCHANGED storeColls
           ELSE IF name \in storeColls
           THEN ReportCreateError(name, StoreError("duplicate name")) /\ UNCHANGED storeColls
           ELSE storeColls' = storeColls \cup {name} /\ UNCHANGED <<consoleErrors, emitted>>
        /\ lastCb' = None
        /\ UNCHANGED <<collections, storeDocs, pending, quiet, clash>>
        /\ UNCHANGED <<config, io, bootstrap>>

(***************************************************************************)
(* connector.js: the promise chain the constructor starts.  Each callback  *)
(* of the chain is one step.                                               *)
(***************************************************************************)
\* options.databaseName || 'deepstream'
DatabaseName == "deepstream"
\* the database arangojs( url ) uses until another one is selected
SystemDatabase == "_system"
\* the signal of emit( 'ready' )
ReadySignal == [signal |-> "ready"]
At(pc) == [at |-> pc]
Rejected(err) == [at |-> "rejected", err |-> err]
\* what a listener of the host throws
Thrown == [t |-> "thrown"]
\* the bootstrap changes nothing but its own state and the signals
BootFrame ==
    UNCHANGED <<collections, prov, storeColls, storeDocs, pending, lastCb, quiet, clash,
                consoleErrors, config, io, bootFaults>>

\* listUserDatabases answers: the names are searched for the database and
\* createDatabase is sent when it is not among them
BootList ==
    /\ boot.at = "listing"
    /\ boot' = IF "list" \in bootFaults THEN Rejected(StoreError("list failed"))
               ELSE IF \E i \in 1..Len(databases) : databases[i] = DatabaseName
               THEN At("resolved")
               ELSE At("creating")
    /\ UNCHANGED <<isReady, databases, usedDatabase, emitted>>
    /\ BootFrame

\* BootList leaving the chain, the database not found
BootCreate_skipped ==
    /\ boot.at = "creating"
    /\ boot' = At("resolved")
    /\ UNCHANGED <<isReady, databases, usedDatabase, emitted>>
    /\ BootFrame

\* createDatabase answers
BootCreate ==
    /\ boot.at = "creating"
    /\ IF "create" \in bootFaults
       THEN boot' = Rejected(StoreError("create failed")) /\ UNCHANGED databases
       ELSE boot' = At("resolved") /\ databases' = Append(databases, DatabaseName)
    /\ UNCHANGED <<isReady, usedDatabase, emitted>>
    /\ BootFrame

\* this._db.useDatabase( this._databaseName )
BootUse ==
    /\ boot.at = "resolved"
    /\ IF "select" \in bootFaults
       THEN boot' = Rejected(StoreError("select failed")) /\ UNCHANGED usedDatabase
       ELSE boot' = At("selected") /\ usedDatabase' = DatabaseName
    /\ UNCHANGED <<isReady, databases, emitted>>
    /\ BootFrame

\* the last callback setting isReady on a rejection as well
BootCatch_ready ==
    /\ boot.at = "rejected"
    /\ isReady' = TRUE
    /\ emitted' = Append(emitted, [signal |-> "error", err |-> boot.err])
    /\ boot' = At("caught")
    /\ UNCHANGED <<databases, usedDatabase>>
    /\ BootFrame

\* this.isReady = true; this.emit( 'ready' ), which runs the host's
\* listeners: one that throws rejects the chain
BootReady ==
    /\ boot.at = "selected"
    /\ isReady' = TRUE
    /\ emitted' = Append(emitted, ReadySignal)
    /\ boot' = IF "listener" \in bootFaults THEN Rejected(Thrown) ELSE At("done")
    /\ UNCHANGED <<databases, usedDatabase>>
    /\ BootFrame

\* .catch: this.emit( 'error', err )
BootCatch ==
    /\ boot.at = "rejected"
    /\ emitted' = Append(emitted, [signal |-> "error", err |-> boot.err])
    /\ boot' = At("caught")
    /\ UNCHANGED <<isReady, databases, usedDatabase>>
    /\ BootFrame

(***************************************************************************)
(* The connector with its store                                            *)
(***************************************************************************)
\* the connector once constructed and its bootstrap done, on a store holding
\* the collections in colls
Constructed(sc, keys, values, faults, colls) ==
    /\ splitChar = sc
    /\ defaultCollection = DefaultCollectionName
    /\ collections = {}
    /\ prov = [n \in {} |-> NoProv]
    /\ storeColls = colls
    /\ storeDocs = {}
    /\ pending = EmptyBag
    /\ lastCb = None
    /\ quiet = None
    /\ clash = FALSE
    /\ consoleErrors = <<>>
    /\ emitted = <<ReadySignal>>
    /\ hostKeys = keys
    /\ hostValues = values
    /\ storeFaults = faults
    /\ isReady = TRUE
    /\ boot = At("done")
    /\ databases = <<DatabaseName>>
    /\ usedDatabase = DatabaseName
    /\ bootFaults = {}

\* splitChar ':' on a store that answers every request it can execute
Init ==
    /\ Constructed(Colon, {KeyA, KeyUA, KeyUUA}, {ValueObject}, FALSE, {})
    /\ input = Null
    /\ output = Null

Next == Set \/ Get \/ Delete \/ StoreQuery \/ StoreCollectionGet \/ StoreCollectionCreate

Spec == Init /\ [][Next]_vars


\* a host that never calls set, on a store in which collection u may exist
InitReadOnly ==
    /\ \E colls \in {{}, {<<"u">>}} :
          Constructed(Colon, {KeyA, KeyUA, KeyColonA}, {ValueObject}, FALSE, colls)
    /\ input = Null
    /\ output = Null

NextReadOnly == Get \/ Delete \/ StoreQuery \/ StoreCollectionGet \/ StoreCollectionCreate

SpecReadOnly == InitReadOnly /\ [][NextReadOnly]_vars

\* keys whose collection name is a property every object inherits
InitProvision ==
    /\ Constructed(Colon, {KeyA, KeyUA, KeyCtor}, {ValueObject, ValueList}, FALSE, {})
    /\ input = Null
    /\ output = Null

SpecProvision == InitProvision /\ [][Next]_vars

\* a host that passes a key starting with the delimiter, and a valid one
InitInvalidKey ==
    /\ Constructed(Colon, {KeyUA, KeyColonA}, {ValueObject}, FALSE, {})
    /\ input = Null
    /\ output = Null

SpecInvalidKey == InitInvalidKey /\ [][Next]_vars

\* two values for each of two keys
InitRepeat ==
    /\ Constructed(Colon, {KeyA, KeyUA}, {ValueObject, ValueList}, FALSE, {})
    /\ input = Null
    /\ output = Null

SpecRepeat == InitRepeat /\ [][Next]_vars

\* keys of which one is the routed id of another, or has the id of another
\* in another collection
InitIsolation ==
    /\ Constructed(Colon, {KeyA, KeyDA, KeyUA, KeyUUA}, {ValueObject}, FALSE, {})
    /\ input = Null
    /\ output = Null

\* what get finds is read off the store: get changes nothing in it
NextIsolation == Set \/ Delete \/ StoreQuery \/ StoreCollectionGet \/ StoreCollectionCreate

SpecIsolation == InitIsolation /\ [][NextIsolation]_vars

\* two keys of one collection, one the routed id of the other
InitDelete ==
    /\ Constructed(Colon, {KeyUA, KeyUUA}, {ValueObject}, FALSE, {})
    /\ input = Null
    /\ output = Null

SpecDelete == InitDelete /\ [][Next]_vars

\* a store that may fail any request, in which the default collection may
\* exist
InitFaulty ==
    /\ \E colls \in {{}, {DefaultCollectionName}} :
          Constructed(Colon, {KeyA}, {ValueObject}, TRUE, colls)
    /\ input = Null
    /\ output = Null

SpecFaulty == InitFaulty /\ [][Next]_vars

(***************************************************************************)
(* One key, any characters, with and without a delimiter configured: the   *)
(* calls alone, no answer from the store                                   *)
(***************************************************************************)
MaxKeyLen == 4
RouteAlphabet == {":", "a", "n", "u", "l"}
RouteKeys == UNION {[1..n -> RouteAlphabet] : n \in 0..MaxKeyLen}

InitRoute ==
    /\ \E key \in RouteKeys, sc \in {NullSplitChar, Colon} :
          Constructed(sc, {key}, {ValueObject}, FALSE, {})
    /\ input = Null
    /\ output = Null

NextRoute == Set \/ Get \/ Delete

SpecRoute == InitRoute /\ [][NextRoute]_vars

(***************************************************************************)
(* transform-data.js applied to one envelope                               *)
(***************************************************************************)
MaxListLen == 2
\* the elements of a list payload, and the values of a field
Elements == {Null, Num(1), Obj([n \in {"_key"} |-> Str("x")]), Arr(<<Num(1)>>)}
Lists == UNION {[1..n -> Elements] : n \in 0..MaxListLen}
FieldValues == {Num(1), Arr(<<Num(1)>>), Obj([n \in {"__ds"} |-> Num(1)])}
PayloadFieldNames == {"v", "__ds", "__dsList", "_key", "_id", "_rev"}
MetaFieldNames == {"_v", "firstname", "__ds"}
MetaValues == {Num(1), Str("Wolfram"), Undefined}
ObjectsOver(names, values) == UNION {[S -> values] : S \in SUBSET names}

\* the platform envelopes: _d an object with fields of the given names or a
\* list, beside the metadata fields
Envelopes(names) ==
    {Obj([n \in DOMAIN meta \cup {"_d"} |-> IF n = "_d" THEN d ELSE meta[n]]) :
        d \in {Obj(f) : f \in ObjectsOver(names, FieldValues)}
              \cup {Arr(l) : l \in Lists},
        meta \in ObjectsOver(MetaFieldNames, MetaValues)}

InitTransform ==
    /\ Constructed(NullSplitChar, {}, {}, FALSE, {})
    /\ input \in Envelopes(PayloadFieldNames)
    /\ output = Null

\* set's transformValueForStorage and then get's transformValueFromStorage
Transform ==
    /\ output = Null
    /\ output' = [stored |-> transformValueForStorage(input),
                  back |-> transformValueFromStorage(transformValueForStorage(input))]
    /\ UNCHANGED <<collections, prov, storeColls, storeDocs, pending, lastCb, quiet, clash,
                   consoleErrors, emitted, config, input, bootstrap>>

SpecTransform == InitTransform /\ [][Transform]_vars

(***************************************************************************)
(* The constructor and its bootstrap, on a store that answers every        *)
(* request of the bootstrap, with a failure or with success                *)
(***************************************************************************)
MaxDatabases == 2
DatabaseNames == {DatabaseName, SystemDatabase}
BootFaultKinds == {"list", "create", "select", "listener"}

InitBootstrap ==
    /\ splitChar = NullSplitChar
    /\ defaultCollection = DefaultCollectionName
    /\ collections = {}
    /\ prov = [n \in {} |-> NoProv]
    /\ storeColls = {}
    /\ storeDocs = {}
    /\ pending = EmptyBag
    /\ lastCb = None
    /\ quiet = None
    /\ clash = FALSE
    /\ consoleErrors = <<>>
    /\ emitted = <<>>
    /\ hostKeys = {}
    /\ hostValues = {}
    /\ storeFaults = FALSE
    /\ input = Null
    /\ output = Null
    /\ isReady = FALSE
    /\ boot = At("listing")
    /\ databases \in UNION {[1..n -> DatabaseNames] : n \in 0..MaxDatabases}
    /\ usedDatabase = SystemDatabase
    /\ bootFaults \in SUBSET BootFaultKinds

NextBootstrap == BootList \/ BootCreate \/ BootUse \/ BootReady \/ BootCatch

\* every callback of the chain runs once the step before it has settled
SpecBootstrap == InitBootstrap /\ [][NextBootstrap]_vars /\ WF_vars(NextBootstrap)


(***************************************************************************)
(* Properties                                                              *)
(***************************************************************************)
Requests == BagToSet(pending)
Routed(collectionName, id) == [null |-> FALSE, collectionName |-> collectionName, id |-> id]
\* the 1-based positions of character ch in key
Positions(key, ch) == {i \in 1..Len(key) : key[i] = ch}

\* C1: once set(k, v) has called back successfully, with no other set or
\* delete in flight or called since, the callback of a following get(k) is
\* (null, v') with v' equal to v.
C1_SetThenGet ==
    (/\ lastCb.op = "get" /\ lastCb.sees.op = "set" /\ lastCb.sees.key = lastCb.key
     /\ lastCb.sees.ok)
        => (lastCb.err = Null /\ lastCb.res = lastCb.sees.value)

C4_Routing ==
    splitChar = Colon =>
        \A key \in hostKeys :
            LET at == Positions(key, ":")
                reqs == {c \in Requests : c.key = key}
            IN  /\ at = {} =>
                       \A c \in reqs : c.params = Routed(defaultCollection, key)
                /\ (at # {} /\ 1 \notin at) =>
                       \A c \in reqs : \E i \in at :
                           /\ \A j \in at : i <= j
                           /\ c.params = Routed([n \in 1..(i - 1) |-> key[n]],
                                                [n \in 1..(Len(key) - i) |-> key[i + n]])
                /\ 1 \in at =>
                       /\ reqs = {} /\ collections = {}
                       /\ lastCb # None => lastCb.err = InvalidKey(key)
                /\ 1 \notin at => lastCb = None

\* a key with two delimiters is in flight, the second one in its id
C4_Witness ==
    /\ splitChar = Colon
    /\ \E c \in Requests : /\ Positions(c.params.id, ":") # {}
                           /\ c.params.collectionName # defaultCollection

\* C5: with no delimiter configured every key routes to the default
\* collection with the whole key as id, and none is rejected as invalid.
C5_NoDelimiterRoutesAll ==
    splitChar = NullSplitChar =>
        /\ lastCb = None
        /\ \A c \in Requests : c.params = Routed(defaultCollection, c.key)

\* C6, as claimed: neither the empty key nor the delimiter alone is routed;
\* set, get and delete call back with the invalid-key error.
C6_EmptyAndDelimiterInvalid ==
    \A key \in hostKeys :
        (key = <<>> \/ (splitChar # NullSplitChar /\ key = splitChar)) =>
            /\ Requests = {} /\ collections = {}
            /\ lastCb # None => lastCb.err = InvalidKey(key)

\* C6, amended: the key equal to the delimiter alone is an invalid key (no
\* request, no handle, the callback gets the invalid-key error); the empty
\* key is routed to the default collection with the empty id.
C6_DelimiterInvalidEmptyRouted ==
    \A key \in hostKeys :
        /\ (splitChar # NullSplitChar /\ key = splitChar) =>
               /\ Requests = {} /\ collections = {}
               /\ lastCb # None => (lastCb.err = InvalidKey(key) /\ lastCb.res = Undefined)
        /\ key = <<>> =>
               /\ lastCb = None
               /\ \A c \in Requests : c.params = Routed(defaultCollection, <<>>)
               /\ Requests # {} => collections = {defaultCollection}

\* set, get and delete of the empty key are in flight
C6_Witness ==
    /\ hostKeys = {<<>>}
    /\ \E c \in Requests : c.op = "set" /\ c.qkey = <<>>

Payload(v) == GetField(v, "_d")
ReservedNames == {"__ds", "_key", "_rev", "_id"}

\* C7, as claimed: an envelope with an object payload, whatever its field
\* names, comes back from storage equal to itself.
C7_ObjectRoundTripAnyNames ==
    (output # Null /\ IsJson(input) /\ IsObject(Payload(input)))
        => output.back = input

\* C7, amended: an envelope with an object payload that has no field named
\* __ds, _key, _rev or _id and no list-valued field __dsList comes back
\* from storage equal to itself, whatever its metadata fields.
C7_ObjectRoundTrip ==
    (/\ output # Null /\ IsJson(input) /\ IsObject(Payload(input))
     /\ DOMAIN Payload(input).f \cap ReservedNames = {}
     /\ ~IsArray(GetField(Payload(input), "__dsList")))
        => output.back = input

\* an object payload with fields, beside metadata named __ds and _v
C7_Witness ==
    /\ output # Null /\ IsJson(input) /\ IsObject(Payload(input))
    /\ DOMAIN Payload(input).f = {"v", "__dsList"}
    /\ {"__ds", "_v"} \subseteq DOMAIN input.f
    /\ output.back = input

\* C8: an envelope with a list payload, the empty list included, comes back
\* from storage equal to itself: the same elements in the same order and
\* the same metadata.
C8_ListRoundTrip ==
    (output # Null /\ IsJson(input) /\ IsArray(Payload(input)))
        => (output.back = input /\ IsArray(GetField(output.stored, "__dsList")))

\* a list of two different elements beside metadata
C8_Witness ==
    /\ output # Null /\ IsJson(input) /\ IsArray(Payload(input))
    /\ Len(Payload(input).e) = 2 /\ Payload(input).e[1] # Payload(input).e[2]
    /\ DOMAIN input.f # {"_d"}
    /\ output.back = input

\* C9: on a store that holds no collection, every collection name a call
\* refers to has had exactly one existence check sent, and at most one
\* create: exactly one once the check has been answered.
C9_OneProvisioning ==
    \A c \in Requests :
        LET p == ProvOf(c.params.collectionName)
        IN  /\ p.checksIssued = 1
            /\ p.createsIssued <= 1
            /\ p.checksPending = 0 => p.createsIssued = 1

\* a step in which the store fails a create
CreateFails ==
    \E name \in DOMAIN prov :
        /\ prov'[name].createsPending < prov[name].createsPending
        /\ storeColls' = storeColls

\* C10, as claimed: the step in which a create fails invokes no callback of
\* set, get or delete and emits an `error` signal carrying the error.
C10_CreateErrorEmitted ==
    [][CreateFails =>
          /\ pending' = pending /\ lastCb' = None
          /\ Len(emitted') = Len(emitted) + 1
          /\ emitted'[Len(emitted')].signal = "error"]_vars

\* C10, amended: the step in which a create fails invokes no callback of
\* set, get or delete, writes the error with console.error and emits no
\* signal.
C10_CreateErrorLogged ==
    [][CreateFails =>
          /\ pending' = pending /\ lastCb' = None
          /\ emitted' = emitted
          /\ Len(consoleErrors') = Len(consoleErrors) + 1
          /\ consoleErrors'[Len(consoleErrors')].err.t = "storeError"]_vars

\* a create has failed while a call that refers to the collection is in flight
C10_Witness ==
    /\ consoleErrors # <<>>
    /\ \E c \in Requests : c.params.collectionName = consoleErrors[1].name

\* C11: a callback for an invalid key carries the error `Invalid key k` and
\* is invoked in a step that sends nothing to the store and changes neither
\* the store nor the cache of collection handles: it is the step of the
\* call, since no request for an invalid key is ever in flight.
C11_InvalidKeyNoRequest ==
    [][/\ \A c \in BagToSet(pending') : ~_getParams(c.key).null
       /\ (lastCb'.op # "none" /\ _getParams(lastCb'.key).null) =>
             /\ lastCb'.err = InvalidKey(lastCb'.key)
             /\ UNCHANGED <<pending, collections, prov, storeColls, storeDocs>>]_vars

\* set called with an invalid key while the cache holds a handle and a
\* request is in flight
C11_Witness ==
    /\ lastCb.op = "set" /\ lastCb.err = InvalidKey(KeyColonA)
    /\ collections # {} /\ pending # EmptyBag

\* the documents get(key) reads: those of the routed collection whose _key
\* is the key
ReadBy(key) == Matching(HandleOf(_getParams(key).collectionName), key)

\* C12, as claimed: on a store that may fail any request, get of a valid
\* key never calls back with an error.
C12_GetNeverErrors ==
    (lastCb.op = "get" /\ ~_getParams(lastCb.key).null)
        => (lastCb.err = Null)

\* C12, amended: get of a valid key calls back (err, null) with the store's
\* error when the store rejects the query, by a fault or because the
\* collection does not exist; otherwise the error is null, whatever
\* cursor.next answers, and the value is null unless the key's document is
\* stored.
C12_GetStoreFault ==
    (lastCb.op = "get" /\ ~_getParams(lastCb.key).null)
        => /\ lastCb.err \in {Null, StoreError("fault"), StoreError("collection not found")}
           /\ lastCb.err # Null => lastCb.res = Null
           /\ lastCb.err = StoreError("collection not found")
                 => _getParams(lastCb.key).collectionName \notin storeColls
           /\ ReadBy(lastCb.key) = {} => lastCb.res = Null

\* cursor.next failed: the key's document is stored and get calls back
\* (null, null)
C12_Witness ==
    /\ lastCb.op = "get" /\ lastCb.key = KeyA
    /\ lastCb.err = Null /\ lastCb.res = Null
    /\ ReadBy(KeyA) # {}

\* C13: the call of a set or delete with a valid key puts one request in
\* flight and invokes no callback; a callback of set or delete takes one
\* request of that call out of flight, so each request is answered once and
\* none is sent again, and it is (null, true), or the store's error with no
\* result for set and with null for delete and the documents left as they
\* were.
C13_OneRequestOneCallback ==
    [][/\ BagCardinality(pending') > BagCardinality(pending) =>
             /\ BagCardinality(pending') = BagCardinality(pending) + 1
             /\ lastCb' = None
       /\ (lastCb'.op \in {"set", "delete"} /\ ~_getParams(lastCb'.key).null) =>
             /\ \E c \in BagToSet(pending) :
                   /\ c.op = lastCb'.op /\ c.key = lastCb'.key
                   /\ pending' = pending (-) SetToBag({c})
             /\ IF lastCb'.err = Null THEN lastCb'.res = True
                ELSE /\ lastCb'.err.t = "storeError"
                     /\ lastCb'.res = (IF lastCb'.op = "set" THEN Undefined ELSE Null)
                     /\ storeDocs' = storeDocs]_vars

\* the store failed a set and a delete is still in flight
C13_Witness ==
    /\ lastCb.op = "set" /\ lastCb.err = StoreError("fault") /\ lastCb.res = Undefined
    /\ \E c \in Requests : c.op = "delete"

\* the step is the callback of the set c
SetAnswered(c) ==
    /\ c.op = "set" /\ lastCb'.op = "set" /\ lastCb'.key = c.key
    /\ pending' = pending (-) SetToBag({c})
\* the document set(k, v) is to leave in the store
Written(c) ==
    [coll |-> c.params.collectionName, key |-> c.params.id,
     doc |-> SetDocument(c.value, c.params)]
\* after the step the store holds Written(c) as the one document under its
\* _key, all other documents are as they were, and nothing changed at all
\* if it held Written(c) before, as it does when set(k, v) is repeated
StoredOnce(c) ==
    /\ {d \in storeDocs' : d.coll = Written(c).coll /\ d.key = Written(c).key} = {Written(c)}
    /\ {d \in storeDocs' : d.coll # Written(c).coll \/ d.key # Written(c).key}
         = {d \in storeDocs : d.coll # Written(c).coll \/ d.key # Written(c).key}
    /\ Written(c) \in storeDocs => storeDocs' = storeDocs

\* C16, as claimed: every set calls back (null, true) and leaves its
\* document stored once, the store unchanged when the set is a repetition.
C16_SetIdempotentAlwaysTrue ==
    [][\A c \in BagToSet(pending) : SetAnswered(c) =>
          /\ lastCb'.err = Null /\ lastCb'.res = True
          /\ StoredOnce(c)]_vars

\* C16, amended: a set that calls back (null, true) leaves its document
\* stored once, the store unchanged when the set is a repetition; a set the
\* store executes while the routed collection does not exist calls back
\* with the store's error and writes nothing, and no other set fails.
C16_SetIdempotent ==
    [][\A c \in BagToSet(pending) : SetAnswered(c) =>
          IF lastCb'.err = Null
          THEN lastCb'.res = True /\ StoredOnce(c)
          ELSE /\ c.params.collectionName \notin storeColls
               /\ storeDocs' = storeDocs]_vars

\* set(k, v) has been answered (null, true) with its document stored
\* already, and the same set(k, v) is in flight once more
C16_Witness ==
    /\ lastCb.op = "set" /\ lastCb.key = KeyUA /\ lastCb.err = Null
    /\ \E c \in Requests :
          /\ c.op = "set" /\ c.key = KeyUA /\ c.value = ValueList
          /\ Written(c) \in storeDocs
          /\ lastCb.res = True

\* the step is the callback of the set or delete c
MutationAnswered(c) ==
    /\ c.op # "get" /\ lastCb'.op = c.op /\ lastCb'.key = c.key
    /\ pending' = pending (-) SetToBag({c})
\* what get(key) finds among the documents docs
ReadIn(docs, key) ==
    {d \in docs : d.coll = _getParams(key).collectionName /\ d.key = key}
\* the valid keys of the host other than key
OtherKeys(key) == {k \in hostKeys \ {key} : ~_getParams(k).null}

\* C17, as claimed: a set or delete on k1 leaves what get(k2) finds as it
\* was, for every valid k2 other than k1.
C17_KeyIsolation ==
    [][\A c \in BagToSet(pending) : MutationAnswered(c) =>
          \A k2 \in OtherKeys(c.key) : ReadIn(storeDocs', k2) = ReadIn(storeDocs, k2)]_vars

\* C17, amended: a delete on k1 leaves what get(k2) finds as it was, for
\* every valid k2 other than k1, and so does a set on k1 unless k2 is the
\* routed id of k1 and routes to k1's collection.
C17_KeyIsolationButRoutedId ==
    [][\A c \in BagToSet(pending) : MutationAnswered(c) =>
          \A k2 \in OtherKeys(c.key) :
              \/ ReadIn(storeDocs', k2) = ReadIn(storeDocs, k2)
              \/ /\ c.op = "set"
                 /\ c.params.id = k2
                 /\ c.params.collectionName = _getParams(k2).collectionName]_vars

\* set('u:a') has stored its document while the document get('a') reads and
\* the one get('u:a') reads are stored
C17_Witness ==
    /\ lastCb.op = "set" /\ lastCb.key = KeyUA /\ lastCb.err = Null
    /\ ReadIn(storeDocs, KeyA) # {} /\ ReadIn(storeDocs, KeyUA) # {}
    /\ Cardinality(storeDocs) = 3

\* C18: once a delete(k) that ran alone has called back, with no set called
\* since, the store holds no document under k's routed collection and id,
\* which is where set(k, v) writes.
C18_DeleteRemovesWhatSetWrote ==
    quiet.op = "delete" =>
        \A d \in storeDocs :
            ~(/\ d.coll = _getParams(quiet.key).collectionName
              /\ d.key = _getParams(quiet.key).id)

\* the provisioning requests of a name, in the state with prov = p
ProvIn(p, name) == IF name \in DOMAIN p THEN p[name] ELSE NoProv

\* C19: the step that caches a handle sends the existence check and puts the
\* call's request in flight, the check unanswered and no create sent; and a
\* set the store rejects because the collection does not exist calls back
\* with that error in a step that writes nothing, sends nothing again and
\* leaves the provisioning as it is.
C19_NoWaitForProvisioning ==
    [][/\ \A name \in collections' \ collections :
             /\ ProvIn(prov', name) = [NoProv EXCEPT !.checksIssued = 1, !.checksPending = 1]
             /\ \E c \in BagToSet(pending') :
                   /\ c.params.collectionName = name
                   /\ pending' = pending (+) SetToBag({c})
       /\ (lastCb'.op = "set" /\ lastCb'.err = StoreError("collection not found")) =>
             /\ _getParams(lastCb'.key).collectionName \notin storeColls
             /\ storeDocs' = storeDocs /\ prov' = prov /\ collections' = collections
             /\ BagCardinality(pending') = BagCardinality(pending) - 1]_vars

\* the upsert has reached the store before the existence check was answered:
\* the set has its error, no collection, no document
C19_Witness ==
    /\ lastCb.op = "set" /\ lastCb.key = KeyUA
    /\ lastCb.err = StoreError("collection not found")
    /\ ProvOf(<<"u">>).checksPending = 1
    /\ <<"u">> \notin storeColls /\ storeDocs = {}

\* C20: every name a call in flight refers to is in the cache, and the call
\* was given the store's handle for that name.
C20_HandleCached ==
    \A c \in Requests :
        /\ c.params.collectionName \in collections
        /\ c.handle = [kind |-> "collection", name |-> c.params.collectionName]

\* the signals of a kind emitted so far, by their position
Emitted(signal) == {i \in 1..Len(emitted) : emitted[i].signal = signal}
\* the `error` signals that carry a failure of the bootstrap
BootstrapErrors == {i \in Emitted("error") : emitted[i].err # Thrown}

\* C14: isReady is false until the database is among the store's databases,
\* found or created, and is the one selected; `ready` is emitted at most
\* once; and once `ready` is emitted isReady is true.
C14_ReadyAfterBootstrap ==
    /\ isReady => /\ \E i \in 1..Len(databases) : databases[i] = DatabaseName
                  /\ usedDatabase = DatabaseName
    /\ Cardinality(Emitted("ready")) <= 1
    /\ Emitted("ready") # {} => isReady

\* ready, the database created by the bootstrap
C14_Witness ==
    /\ isReady /\ Emitted("ready") # {} /\ boot.at = "done"
    /\ Len(databases) > 0 /\ databases[Len(databases)] = DatabaseName
    /\ \A i \in 1..(Len(databases) - 1) : databases[i] # DatabaseName

\* C15: the bootstrap ends in exactly one of two ways: `ready` emitted with
\* isReady true, or an `error` carrying the failure of the listing, the
\* create or the selection emitted with isReady false, then and from then on;
\* never both, and neither twice.
C15_OneTransition ==
    /\ [](Cardinality(Emitted("ready")) + Cardinality(BootstrapErrors) <= 1)
    /\ [](BootstrapErrors # {} => ~isReady)
    /\ [](Emitted("ready") # {} => isReady)
    /\ <>(Emitted("ready") # {} \/ BootstrapErrors # {})

\* the create of the database failed: the error is emitted, not ready
C15_Witness ==
    /\ boot.at = "caught" /\ ~isReady
    /\ emitted = <<[signal |-> "error", err |-> StoreError("create failed")]>>

=============================================================================
